---- MODULE Spec2Model ----
(***************************************************************************)
(* A model of the batc compiler (src/parser.py, src/main.py): the parser's *)
(* productions, the scope graph, and the declare / check / compile passes  *)
(* over the AST.                                                           *)
(*                                                                         *)
(* Python objects are records whose field cls is the class name.  An       *)
(* optional value (None or x) is the sequence <<>> or <<x>>.  A Python     *)
(* string of assembly is the sequence of its lines (str.split("\n")), so   *)
(* "" is <<"">>, s + "\n" + t and "\n".join([s, t]) are s \o t.            *)
(* An exception is a non-empty err string; NoErr is "no exception".        *)
(***************************************************************************)
EXTENDS Integers, Sequences, FiniteSets, TLC

VARIABLES
    source,  \* the parse tree of main.bat (main.py:6-11)
    ast,     \* Program.top_levels, scope-annotated by the declare pass
    scopes,  \* every Scope object, by id; scopes[1] is the root (main.py:13)
    asm,     \* one compiled text per top-level item (main.py:16)
    pc,      \* the statement of main.py being run, or the harness in use
    idx,     \* the loop index of Program.declare / check / compile
    err,     \* the exception that ended the run ("" while there is none)
    arg,     \* harness: the arguments of the last direct call
    ret      \* harness: the value the last direct call returned

vars == <<source, ast, scopes, asm, pc, idx, err, arg, ret>>

(***************************************************************************)
(* Bounds of the model.                                                    *)
(***************************************************************************)
MaxTop == 2        \* top-level items per program
MaxScopes == 3     \* Scope objects in the scope harness
MaxLocals == 2     \* variables per non-root scope in the scope harness
MaxDepth == 2      \* pointer nesting of the types of the cast harness

(***************************************************************************)
(* Program constants (parser.py:14-19, 31, 97, 660).                       *)
(***************************************************************************)
BASE_POINTER_REG == 7
STACK_POINTER_REG == 6
HEAP_END == 128
STATIC_MEMORY_SIZE == 64
STACK_END == HEAP_END + STATIC_MEMORY_SIZE
OffsetMin == -32
OffsetMax == 31
FirstReg == 2
LastReg == 5
ByteMask == 255
I8Min == -128
I8Max == 127

NoErr == ""
None == <<>>
Some(x) == <<x>>
NoScope == 0

Put(f, k, v) == [x \in DOMAIN f \cup {k} |-> IF x = k THEN v ELSE f[x]]
EmptyMap == [x \in {} |-> 0]

(***************************************************************************)
(* repr_* (parser.py:21-43).  repr_offset raises ValueError out of range;  *)
(* OffsetOk is its guard.                                                  *)
(***************************************************************************)
repr_immediate(x) == "#" \o ToString(x)
repr_register(x) == "r" \o ToString(x)
OffsetOk(x) == ~(x < OffsetMin \/ x > OffsetMax)
repr_offset(x) == repr_immediate(x)
repr_user_label(x) == ".user_" \o x
repr_batc_label(x) == ".batc_" \o x

(***************************************************************************)
(* Destinations (parser.py:46-83).                                         *)
(***************************************************************************)
RegisterDestination(register) == [cls |-> "RegisterDestination", register |-> register]
MemoryDestination(address) == [cls |-> "MemoryDestination", address |-> address]
RegisterOffsetDestination(register, offset) ==
    [cls |-> "RegisterOffsetDestination", register |-> register, offset |-> offset]

\* RegisterOffsetDestination.load_from_register
load_from_register(dest, register) ==
    "mst " \o repr_register(dest.register) \o ", " \o repr_offset(dest.offset)
           \o ", " \o repr_register(register)

\* RegisterOffsetDestination.__repr__
repr_RegisterOffset(dest) ==
    repr_register(dest.register) \o ", " \o repr_offset(dest.offset)

(***************************************************************************)
(* The class hierarchy, for isinstance.                                    *)
(***************************************************************************)
Base(cls) ==
    CASE cls \in {"I8Type", "U8Type"} -> "IntegerType"
      [] cls \in {"VoidType", "IntegerType", "CharType", "BoolType", "PointerType"}
            -> "PrimitiveType"
      [] cls = "PrimitiveType" -> "Type"
      [] cls = "RegisterOffsetDestination" -> "MemoryDestination"
      [] cls \in {"MemoryDestination", "RegisterDestination"} -> "Destination"
      [] cls \in {"IntLiteral", "StringLiteral", "CharLiteral"} -> "Literal"
      [] cls \in {"Literal", "Call", "Ident", "Deref", "EqEq"} -> "Expression"
      [] cls \in {"Func", "Var"} -> "TopLevel"
      [] cls \in {"Block", "If"} -> "Statement"
      [] cls \in {"Type", "Expression", "TopLevel", "Statement", "Param", "Program"}
            -> "Node"
      [] OTHER -> "object"

RECURSIVE Mro(_)
Mro(cls) == IF cls = "object" THEN {cls} ELSE {cls} \cup Mro(Base(cls))

IsInstance(obj, cls) == cls \in Mro(obj.cls)

(***************************************************************************)
(* Types (parser.py:399-443).                                              *)
(***************************************************************************)
VoidType == [cls |-> "VoidType"]
I8Type(value) == [cls |-> "I8Type", value |-> value]
U8Type(value) == [cls |-> "U8Type", value |-> value]
CharType == [cls |-> "CharType"]
BoolType == [cls |-> "BoolType"]
PointerType(type) == [cls |-> "PointerType", type |-> type]
\* a function's entry in Scope.vars: the tuple (param_types, return_type)
Signature(param_types, return_type) ==
    [cls |-> "tuple", params |-> param_types, ret |-> return_type]

\* Type.__eq__ (403-404) and PointerType.__eq__ (442-443)
RECURSIVE TypeEq(_, _)
TypeEq(self, other) ==
    IF self.cls = "PointerType"
    THEN IsInstance(other, self.cls) /\ TypeEq(self.type, other.type)
    ELSE IsInstance(other, self.cls)

\* Type.can_be_implicitly_casted_to (400-401)
Type_cast(self, other) == TypeEq(self, other)

\* the upper end of the u8 range test of line 418
U8Max == 255

\* mutant: the i8 range test has lost its upper end
IntegerType_cast_Mut(self, other) ==
    IF self.value # None
       /\ \/ IsInstance(other, "U8Type") /\ 0 <= self.value[1] /\ self.value[1] <= U8Max
          \/ IsInstance(other, "I8Type") /\ I8Min <= self.value[1]
    THEN TRUE
    ELSE Type_cast(self, other)

\* IntegerType.can_be_implicitly_casted_to (416-424)
IntegerType_cast(self, other) ==
    IF self.value # None
       /\ \/ IsInstance(other, "U8Type") /\ 0 <= self.value[1] /\ self.value[1] <= U8Max
          \/ IsInstance(other, "I8Type") /\ I8Min <= self.value[1] /\ self.value[1] <= I8Max
    THEN TRUE
    ELSE Type_cast(self, other)

\* method resolution of can_be_implicitly_casted_to
can_be_implicitly_casted_to(self, other) ==
    IF IsInstance(self, "IntegerType") THEN IntegerType_cast(self, other)
    ELSE Type_cast(self, other)

(***************************************************************************)
(* Scope (parser.py:86-161).  The scope graph is the sequence of all Scope *)
(* objects; an operation takes and returns st = [scopes, err].  A call     *)
(* made after an exception was raised does not happen.                     *)
(***************************************************************************)
InitialRegs == FirstReg..LastReg

Raise(st, e) == [st EXCEPT !.err = e]

\* Scope.declare_func (127-134)
declare_func(st, sc, name, param_types, return_type) ==
    IF st.err # NoErr THEN st
    ELSE IF st.scopes[sc].parent # NoScope
    THEN Raise(st, "Functions can only be declared at the top level")
    ELSE IF name \in DOMAIN st.scopes[sc].vars
    THEN Raise(st, "Redefinition of symbol")
    ELSE [st EXCEPT !.scopes[sc].vars = Put(@, name, Signature(param_types, return_type))]

\* Scope.__init__ with parent = None, and init_top_level (87-100)
RootScope ==
    LET bare == [parent |-> NoScope, vars |-> EmptyMap, addrs |-> EmptyMap,
                 offset |-> 0, regs |-> InitialRegs]
        s1 == declare_func([scopes |-> <<bare>>, err |-> NoErr], 1, "write_port",
                           <<U8Type(None), U8Type(None)>>, VoidType)
        s2 == declare_func(s1, 1, "read_port", <<U8Type(None)>>, U8Type(None))
    IN s2.scopes[1]

\* Scope.__init__ with a parent (87-91); the new scope's id is Len(scopes)
NewScope(st, parent) ==
    IF st.err # NoErr THEN st
    ELSE [st EXCEPT !.scopes = Append(@, [parent |-> parent, vars |-> EmptyMap,
                                          addrs |-> EmptyMap, offset |-> 0])]

\* mutant: the first static slot is STACK_END itself
StaticAddr_Mut(offset) == STACK_END - offset

\* the address of the next static slot (120)
StaticAddr(offset) == STACK_END - 1 - offset

\* the test that an address is outside static memory (121)
OutOfStatic(addr) == addr <= HEAP_END

\* mutant: no name is ever taken for a redefinition
IsRedefinition_Mut(scope, name) == FALSE

\* the name check of declare_var (113)
IsRedefinition(scope, name) == name \in DOMAIN scope.vars

\* Scope.declare_var (112-125)
declare_var(st, sc, name, type) ==
    IF st.err # NoErr THEN st
    ELSE LET scope == st.scopes[sc] IN
    IF IsRedefinition(scope, name) THEN Raise(st, "Redefinition of symbol")
    ELSE LET s1 == [st EXCEPT !.scopes[sc].vars = Put(@, name, type)] IN
    IF scope.parent # NoScope
    THEN [s1 EXCEPT !.scopes[sc].addrs =
                        Put(@, name, RegisterOffsetDestination(BASE_POINTER_REG, scope.offset)),
                    !.scopes[sc].offset = @ + 1]
    ELSE LET addr == StaticAddr(scope.offset) IN
         IF OutOfStatic(addr) THEN Raise(s1, "Out of static memory")
         ELSE [s1 EXCEPT !.scopes[sc].addrs = Put(@, name, MemoryDestination(addr)),
                         !.scopes[sc].offset = @ + 1]

\* Scope.get_func (136-145): [val, err]
RECURSIVE get_func(_, _, _)
get_func(scs, sc, name) ==
    IF name \notin DOMAIN scs[sc].vars
    THEN IF scs[sc].parent # NoScope THEN get_func(scs, scs[sc].parent, name)
         ELSE [val |-> None, err |-> "Function not declared"]
    ELSE IF ~IsInstance(scs[sc].vars[name], "tuple")
    THEN [val |-> None, err |-> "Symbol is not a function"]
    ELSE [val |-> Some(scs[sc].vars[name]), err |-> NoErr]

\* Scope.get_var_type (147-153): [val, err]
RECURSIVE get_var_type(_, _, _)
get_var_type(scs, sc, name) ==
    IF name \notin DOMAIN scs[sc].vars
    THEN IF scs[sc].parent # NoScope THEN get_var_type(scs, scs[sc].parent, name)
         ELSE [val |-> None, err |-> "Symbol not declared"]
    ELSE [val |-> Some(scs[sc].vars[name]), err |-> NoErr]

\* Scope.get_var_address (155-161): [val, err]; addrs[name] of a name that has
\* no address (a function) is a KeyError
RECURSIVE get_var_address(_, _, _)
get_var_address(scs, sc, name) ==
    IF name \notin DOMAIN scs[sc].vars
    THEN IF scs[sc].parent # NoScope THEN get_var_address(scs, scs[sc].parent, name)
         ELSE [val |-> None, err |-> "Symbol not declared"]
    ELSE IF name \notin DOMAIN scs[sc].addrs
    THEN [val |-> None, err |-> "KeyError"]
    ELSE [val |-> Some(scs[sc].addrs[name]), err |-> NoErr]

(***************************************************************************)
(* AST nodes (the __init__ of each Node class).  scope is the attribute    *)
(* the declare pass sets; NoScope while it is unset.                       *)
(***************************************************************************)
Func(name, params, return_type, body) ==
    [cls |-> "Func", name |-> name, params |-> params, return_type |-> return_type,
     body |-> body, scope |-> NoScope]
Param(name, type) == [cls |-> "Param", name |-> name, type |-> type, scope |-> NoScope]
Block(statements) == [cls |-> "Block", statements |-> statements, scope |-> NoScope]
If(condition, then_body, else_body) ==
    [cls |-> "If", condition |-> condition, then_body |-> then_body,
     else_body |-> else_body, scope |-> NoScope]
Var(name, type, value) ==
    [cls |-> "Var", name |-> name, type |-> type, value |-> value, scope |-> NoScope]
Deref(expr) == [cls |-> "Deref", expr |-> expr, scope |-> NoScope]
EqEq(left, right) == [cls |-> "EqEq", left |-> left, right |-> right, scope |-> NoScope]
Ident(name) == [cls |-> "Ident", name |-> name, scope |-> NoScope]
Call(name, args) == [cls |-> "Call", name |-> name, args |-> args, scope |-> NoScope]
IntLiteral(value) == [cls |-> "IntLiteral", value |-> value, scope |-> NoScope]
StringLiteral(value) == [cls |-> "StringLiteral", value |-> value, scope |-> NoScope]
CharLiteral(value) == [cls |-> "CharLiteral", value |-> value, scope |-> NoScope]

(***************************************************************************)
(* The parser: a parse tree node names its production (prod) and holds the *)
(* symbols the production's function reads from xs.  Reduce runs the       *)
(* production functions bottom-up and returns [val, err].                  *)
(***************************************************************************)
Ok(x) == [val |-> Some(x), err |-> NoErr]
Fail(e) == [val |-> None, err |-> e]

\* "var : KEYW_VAR OTHR_IDENT SYMB_COLON type SYMB_EQ expression" (390-392)
prod_var_eq(name, type, expression) == Ok(Var(name, type, Some(expression)))

\* "var : KEYW_VAR OTHR_IDENT SYMB_COLON type" (394-396): Var(xs[1].getstr(), xs[3])
\* leaves out the parameter value, which has no default (362)
prod_var(name, type) == Fail("TypeError")

\* "literal : LITR_CHAR" (719-721) and CharLiteral.__init__ (696-700)
prod_char(value) ==
    IF Len(value) # 1 THEN Fail("CharLiteral value must be exactly one character")
    ELSE Ok(CharLiteral(value))

RECURSIVE Reduce(_), ReduceList(_)
\* the reductions of a list rule (params, args, statements, top_levels)
ReduceList(ts) ==
    IF ts = <<>> THEN Ok(<<>>)
    ELSE LET h == Reduce(ts[1]) IN
         IF h.err # NoErr THEN Fail(h.err)
         ELSE LET t == ReduceList(Tail(ts)) IN
              IF t.err # NoErr THEN Fail(t.err)
              ELSE Ok(<<h.val[1]>> \o t.val[1])

Reduce(t) ==
    CASE t.prod = "type_void" -> Ok(VoidType)
      [] t.prod = "type_i8" -> Ok(I8Type(None))
      [] t.prod = "type_u8" -> Ok(U8Type(None))
      [] t.prod = "type_char" -> Ok(CharType)
      [] t.prod = "type_bool" -> Ok(BoolType)
      [] t.prod = "type_ptr" ->
            LET e == Reduce(t.type) IN
            IF e.err # NoErr THEN e ELSE Ok(PointerType(e.val[1]))
      [] t.prod = "literal_int" -> Ok(IntLiteral(t.value))
      [] t.prod = "literal_string" -> Ok(StringLiteral(t.value))
      [] t.prod = "literal_char" -> prod_char(t.value)
      [] t.prod = "ident" -> Ok(Ident(t.name))
      [] t.prod = "deref" ->
            LET e == Reduce(t.expr) IN
            IF e.err # NoErr THEN e ELSE Ok(Deref(e.val[1]))
      [] t.prod = "eqeq" ->
            LET l == Reduce(t.left)
                r == Reduce(t.right)
            IN IF l.err # NoErr THEN l
               ELSE IF r.err # NoErr THEN r
               ELSE Ok(EqEq(l.val[1], r.val[1]))
      [] t.prod = "call" ->
            LET a == ReduceList(t.args) IN
            IF a.err # NoErr THEN a ELSE Ok(Call(t.name, a.val[1]))
      [] t.prod = "var_eq" ->
            LET ty == Reduce(t.type)
                e == Reduce(t.expr)
            IN IF ty.err # NoErr THEN ty
               ELSE IF e.err # NoErr THEN e
               ELSE prod_var_eq(t.name, ty.val[1], e.val[1])
      [] t.prod = "var" ->
            LET ty == Reduce(t.type) IN
            IF ty.err # NoErr THEN ty ELSE prod_var(t.name, ty.val[1])
      [] t.prod = "block" ->
            LET ss == ReduceList(t.statements) IN
            IF ss.err # NoErr THEN ss ELSE Ok(Block(ss.val[1]))
      [] t.prod = "if" ->
            LET c == Reduce(t.condition)
                b == Reduce(t.then_body)
            IN IF c.err # NoErr THEN c
               ELSE IF b.err # NoErr THEN b
               ELSE Ok(If(c.val[1], b.val[1], None))
      [] t.prod = "if_else" ->
            LET c == Reduce(t.condition)
                b == Reduce(t.then_body)
                e == Reduce(t.else_body)
            IN IF c.err # NoErr THEN c
               ELSE IF b.err # NoErr THEN b
               ELSE IF e.err # NoErr THEN e
               ELSE Ok(If(c.val[1], b.val[1], Some(e.val[1])))
      [] t.prod = "param" ->
            LET ty == Reduce(t.type) IN
            IF ty.err # NoErr THEN ty ELSE Ok(Param(t.name, ty.val[1]))
      [] t.prod = "func" ->
            LET ps == ReduceList(t.params)
                ty == Reduce(t.type)
                b == Reduce(t.body)
            IN IF ps.err # NoErr THEN ps
               ELSE IF ty.err # NoErr THEN ty
               ELSE IF b.err # NoErr THEN b
               ELSE Ok(Func(t.name, ps.val[1], ty.val[1], b.val[1]))

\* parse (726-727) and "program : top_levels" (210-212)
parse(tokens) == ReduceList(tokens)

(***************************************************************************)
(* The declare pass.  Declare(node, sc, st) is "node.scope = sc;           *)
(* node.declare()" and returns the annotated node and the scope graph;     *)
(* nothing runs once an exception is raised.                               *)
(***************************************************************************)
ParamTypes(params) == [i \in 1..Len(params) |-> params[i].type]

RECURSIVE Declare(_, _, _), DeclareEach(_, _, _)
\* "for x in xs: x.scope = sc; x.declare()" (196-198, 246-248, 309-311, 570-572)
DeclareEach(nodes, sc, st) ==
    IF nodes = <<>> THEN [nodes |-> <<>>, st |-> st]
    ELSE LET h == Declare(nodes[1], sc, st)
             t == DeclareEach(Tail(nodes), sc, h.st)
         IN [nodes |-> <<h.node>> \o t.nodes, st |-> t.st]

Declare(node, sc, st) ==
    IF st.err # NoErr THEN [node |-> node, st |-> st]
    ELSE LET n == [node EXCEPT !.scope = sc] IN
    CASE node.cls = "Func" ->                                   \* Func.declare (241-250)
            LET s1 == declare_func(st, sc, node.name, ParamTypes(node.params),
                                   node.return_type)
                s2 == NewScope(s1, sc)
                body_scope == Len(s2.scopes)
                ps == DeclareEach(node.params, body_scope, s2)
                b == Declare(node.body, body_scope, ps.st)
            IN [node |-> [n EXCEPT !.params = ps.nodes, !.body = b.node], st |-> b.st]
      [] node.cls = "Param" ->                                  \* Param.declare (268-269)
            [node |-> n, st |-> declare_var(st, sc, node.name, node.type)]
      [] node.cls = "Block" ->                                  \* Block.declare (308-311)
            LET ss == DeclareEach(node.statements, sc, st)
            IN [node |-> [n EXCEPT !.statements = ss.nodes], st |-> ss.st]
      [] node.cls = "If" ->                                     \* If.declare (331-340)
            LET c == Declare(node.condition, sc, st)
                s1 == NewScope(c.st, sc)
                t == Declare(node.then_body, Len(s1.scopes), s1)
            IN IF node.else_body = None
               THEN [node |-> [n EXCEPT !.condition = c.node, !.then_body = t.node],
                     st |-> t.st]
               ELSE LET s2 == NewScope(t.st, sc)
                        e == Declare(node.else_body[1], Len(s2.scopes), s2)
                    IN [node |-> [n EXCEPT !.condition = c.node, !.then_body = t.node,
                                           !.else_body = Some(e.node)],
                        st |-> e.st]
      [] node.cls = "Var" ->                                    \* Var.declare (367-372)
            LET s1 == declare_var(st, sc, node.name, node.type) IN
            IF node.value = None THEN [node |-> n, st |-> s1]
            ELSE LET v == Declare(node.value[1], sc, s1)
                 IN [node |-> [n EXCEPT !.value = Some(v.node)], st |-> v.st]
      [] node.cls = "Deref" ->                                  \* Deref.declare (485-487)
            LET e == Declare(node.expr, sc, st)
            IN [node |-> [n EXCEPT !.expr = e.node], st |-> e.st]
      [] node.cls = "EqEq" ->                                   \* EqEq.declare (508-513)
            LET l == Declare(node.left, sc, st)
                r == Declare(node.right, sc, l.st)
            IN [node |-> [n EXCEPT !.left = l.node, !.right = r.node], st |-> r.st]
      [] node.cls = "Call" ->                                   \* Call.declare (569-572)
            LET a == DeclareEach(node.args, sc, st)
            IN [node |-> [n EXCEPT !.args = a.nodes], st |-> a.st]
      [] node.cls \in {"Ident", "IntLiteral", "CharLiteral"} -> \* pass (534, 656, 702)
            [node |-> n, st |-> st]
      [] OTHER ->                                               \* Node.declare (169-170)
            [node |-> n, st |-> Raise(st, "NotImplementedError")]

(***************************************************************************)
(* The check pass.  get_type returns [val, err]; Check returns the         *)
(* exception raised ("" for none).                                         *)
(***************************************************************************)
\* x & 0xFF on a Python int
BitAnd255(x) == x % (ByteMask + 1)

\* self.warn(...) (661): no class of the hierarchy of Node (166-176) defines warn
Node_warn(node) == "AttributeError"

\* IntLiteral.check (659-662); line 662 runs only if warn returns
IntLiteral_check(node) ==
    IF BitAnd255(node.value) # node.value THEN Node_warn(node) ELSE NoErr

\* IntLiteral.get_type (679-683)
IntLiteral_get_type(node) ==
    IF node.value < 0 THEN I8Type(Some(node.value)) ELSE U8Type(Some(node.value))

\* Ident.get_type (540-541)
Ident_get_type(node, scs) == get_var_type(scs, node.scope, node.name)

\* Ident.check (537-538)
Ident_check(node, scs) == NoErr

RECURSIVE get_type(_, _)
get_type(node, scs) ==
    CASE node.cls = "IntLiteral" -> Ok(IntLiteral_get_type(node))
      [] node.cls = "StringLiteral" -> Ok(PointerType(CharType))     \* 692-693
      [] node.cls = "CharLiteral" -> Ok(CharType)                    \* 708-709
      [] node.cls = "EqEq" -> Ok(BoolType)                           \* 522-523
      [] node.cls = "Ident" -> Ident_get_type(node, scs)
      [] node.cls = "Deref" ->                                       \* 495-496
            LET t == get_type(node.expr, scs) IN
            IF t.err # NoErr THEN t
            ELSE IF t.val[1].cls # "PointerType" THEN Fail("AttributeError")
            ELSE Ok(t.val[1].type)
      [] OTHER -> Fail("NotImplementedError")                        \* 471-472

\* a.can_be_implicitly_casted_to(b) on whatever get_type returned: a function's
\* tuple has no such method
CastCall(a, b) ==
    IF ~IsInstance(a, "Type") THEN Fail("AttributeError")
    ELSE Ok(can_be_implicitly_casted_to(a, b))

\* the arguments against the parameters (583-585)
RECURSIVE CheckArgs(_, _, _, _)
CheckArgs(args, params, i, scs) ==
    IF i > Len(args) \/ i > Len(params) THEN NoErr
    ELSE LET t == get_type(args[i], scs) IN
         IF t.err # NoErr THEN t.err
         ELSE LET c == CastCall(t.val[1], params[i]) IN
              IF c.err # NoErr THEN c.err
              ELSE IF ~c.val[1] THEN "Cannot pass"
              ELSE CheckArgs(args, params, i + 1, scs)

\* Var.check (374-381), after value.check()
Var_check_type(node, scs) ==
    LET t == get_type(node.value[1], scs) IN
    IF t.err # NoErr THEN t.err
    ELSE LET c == CastCall(t.val[1], node.type) IN
         IF c.err # NoErr THEN c.err
         ELSE IF ~c.val[1] THEN "Cannot assign" ELSE NoErr

RECURSIVE Check(_, _), CheckEach(_, _)
CheckEach(nodes, scs) ==
    IF nodes = <<>> THEN NoErr
    ELSE LET h == Check(nodes[1], scs) IN
         IF h # NoErr THEN h ELSE CheckEach(Tail(nodes), scs)

Check(node, scs) ==
    CASE node.cls = "Func" -> Check(node.body, scs)                  \* 252-253
      [] node.cls = "Block" -> CheckEach(node.statements, scs)       \* 313-315
      [] node.cls = "If" ->                                          \* 342-347
            LET c == Check(node.condition, scs) IN
            IF c # NoErr THEN c
            ELSE LET t == Check(node.then_body, scs) IN
            IF t # NoErr THEN t
            ELSE IF node.else_body # None THEN Check(node.else_body[1], scs)
            ELSE NoErr
      [] node.cls = "Var" ->                                         \* 374-381
            IF node.value = None THEN NoErr
            ELSE LET v == Check(node.value[1], scs) IN
                 IF v # NoErr THEN v ELSE Var_check_type(node, scs)
      [] node.cls = "Deref" ->                                       \* 489-493
            LET t == get_type(node.expr, scs) IN
            IF t.err # NoErr THEN t.err
            ELSE IF ~IsInstance(t.val[1], "PointerType") THEN "Cannot dereference"
            ELSE Check(node.expr, scs)
      [] node.cls = "EqEq" ->                                        \* 515-520
            LET l == Check(node.left, scs) IN
            IF l # NoErr THEN l
            ELSE LET r == Check(node.right, scs) IN
            IF r # NoErr THEN r
            ELSE LET lt == get_type(node.left, scs)
                     rt == get_type(node.right, scs)
                 IN IF lt.err # NoErr THEN lt.err
                    ELSE IF rt.err # NoErr THEN rt.err
                    ELSE LET c1 == CastCall(lt.val[1], rt.val[1]) IN
                    IF c1.err # NoErr THEN c1.err
                    ELSE IF c1.val[1] THEN NoErr
                    ELSE LET c2 == CastCall(rt.val[1], lt.val[1]) IN
                    IF c2.err # NoErr THEN c2.err
                    ELSE IF ~c2.val[1] THEN "Cannot compare" ELSE NoErr
      [] node.cls = "Ident" -> Ident_check(node, scs)
      [] node.cls = "Call" ->                                        \* 574-585
            LET a == CheckEach(node.args, scs) IN
            IF a # NoErr THEN a
            ELSE LET func == get_func(scs, node.scope, node.name) IN
            IF func.err # NoErr THEN func.err
            ELSE IF Len(func.val[1].params) # Len(node.args)
            THEN "Function expects a different number of arguments"
            ELSE CheckArgs(node.args, func.val[1].params, 1, scs)
      [] node.cls = "IntLiteral" -> IntLiteral_check(node)
      [] node.cls \in {"StringLiteral", "CharLiteral"} -> NoErr      \* 689, 705
      [] OTHER -> "AttributeError"

(***************************************************************************)
(* The compile pass.  A compile returns [lines, regs, err]: the text, the  *)
(* register pool afterwards, and the exception raised.  The pool is        *)
(* [free, picks]: the root scope's regs, and what decides set.pop(), which *)
(* removes an arbitrary element: the k-th pop of a top-level item removes  *)
(* the free register of rank picks[k].                                     *)
(***************************************************************************)
Out(lines, regs, e) == [lines |-> lines, regs |-> regs, err |-> e]

\* self.regs.pop() (109)
Pop(regs) ==
    LET k == IF regs.picks = <<>> THEN 0
             ELSE (Head(regs.picks) - 1) % Cardinality(regs.free)
    IN CHOOSE r \in regs.free : Cardinality({q \in regs.free : q < r}) = k

\* Scope.alloc_register (102-109): [reg, regs, err]
RECURSIVE alloc_register(_, _, _)
alloc_register(scs, sc, regs) ==
    IF scs[sc].parent # NoScope THEN alloc_register(scs, scs[sc].parent, regs)
    ELSE IF Cardinality(regs.free) = 0
    THEN [reg |-> 0, regs |-> regs, err |-> "Out of registers"]
    ELSE LET r == Pop(regs)
         IN [reg |-> r,
             regs |-> [free |-> regs.free \ {r},
                       picks |-> IF regs.picks = <<>> THEN <<>> ELSE Tail(regs.picks)],
             err |-> NoErr]

\* mutant: the register is given back only when the block ends without an exception
Exit_Mut(regs, register, exc) ==
    IF exc = NoErr THEN [regs EXCEPT !.free = @ \cup {register}] ELSE regs

\* RegisterDestination.__exit__ (67-68); exc is the exception leaving the block
Exit(regs, register, exc) == [regs EXCEPT !.free = @ \cup {register}]

\* "with alloc_register() as reg: <body>", given what the body returned
With(reg, body) == Out(body.lines, Exit(body.regs, reg, body.err), body.err)

\* IntLiteral.compile_into (664-677)
IntLiteral_compile_into(node, dest, scs, regs) ==
    IF IsInstance(dest, "RegisterOffsetDestination")
    THEN LET a == alloc_register(scs, node.scope, regs) IN
         IF a.err # NoErr THEN Out(<<>>, regs, a.err)
         ELSE With(a.reg,
                IF ~OffsetOk(dest.offset) THEN Out(<<>>, a.regs, "Offset out of range")
                ELSE Out(<<"ldi " \o repr_register(a.reg) \o ", " \o repr_immediate(node.value),
                           load_from_register(dest, a.reg)>>, a.regs, NoErr))
    ELSE IF IsInstance(dest, "MemoryDestination")
    THEN LET v == alloc_register(scs, node.scope, regs) IN
         IF v.err # NoErr THEN Out(<<>>, regs, v.err)
         ELSE With(v.reg,
                LET a == alloc_register(scs, node.scope, v.regs) IN
                IF a.err # NoErr THEN Out(<<>>, v.regs, a.err)
                ELSE With(a.reg,
                       Out(<<"ldi " \o repr_register(v.reg) \o ", " \o repr_immediate(node.value),
                             "ldi " \o repr_register(a.reg) \o ", "
                                    \o repr_immediate(dest.address),
                             "mst " \o repr_register(a.reg) \o ", " \o repr_offset(0)
                                    \o ", " \o repr_register(v.reg)>>, a.regs, NoErr)))
    ELSE IF IsInstance(dest, "RegisterDestination")
    THEN Out(<<"ldi " \o repr_register(dest.register) \o ", " \o repr_immediate(node.value)>>,
             regs, NoErr)
    ELSE Out(<<>>, regs, "NotImplementedError")

\* Ident.compile_into (543-557)
Ident_compile_into(node, dest, scs, regs) ==
    IF ~IsInstance(dest, "RegisterOffsetDestination")
    THEN Out(<<>>, regs, "NotImplementedError")
    ELSE LET var_addr == get_var_address(scs, node.scope, node.name) IN
    IF var_addr.err # NoErr THEN Out(<<>>, regs, var_addr.err)
    ELSE IF IsInstance(var_addr.val[1], "RegisterOffsetDestination")
    THEN LET a == alloc_register(scs, node.scope, regs) IN
         IF a.err # NoErr THEN Out(<<>>, regs, a.err)
         ELSE With(a.reg,
                IF ~OffsetOk(var_addr.val[1].offset) \/ ~OffsetOk(dest.offset)
                THEN Out(<<>>, a.regs, "Offset out of range")
                ELSE Out(<<"mld " \o repr_register(a.reg) \o ", "
                                  \o repr_RegisterOffset(var_addr.val[1]) \o ", "
                                  \o repr_offset(0),
                           load_from_register(dest, a.reg)>>, a.regs, NoErr))
    ELSE IF IsInstance(var_addr.val[1], "MemoryDestination")
    THEN LET a == alloc_register(scs, node.scope, regs) IN
         IF a.err # NoErr THEN Out(<<>>, regs, a.err)
         ELSE With(a.reg,
                IF ~OffsetOk(dest.offset) THEN Out(<<>>, a.regs, "Offset out of range")
                ELSE Out(<<"ldi " \o repr_register(a.reg) \o ", "
                                  \o repr_immediate(var_addr.val[1].address),
                           "mld " \o repr_register(a.reg) \o ", " \o repr_register(a.reg)
                                  \o ", " \o repr_offset(0),
                           load_from_register(dest, a.reg)>>, a.regs, NoErr))
    ELSE Out(<<>>, regs, "NotImplementedError")

\* method resolution of compile_into: Expression.compile_into (474-475) otherwise
compile_into(node, dest, scs, regs) ==
    CASE node.cls = "IntLiteral" -> IntLiteral_compile_into(node, dest, scs, regs)
      [] node.cls = "Ident" -> Ident_compile_into(node, dest, scs, regs)
      [] OTHER -> Out(<<>>, regs, "NotImplementedError")

\* the destination of argument i (625); i counts from 0
ArgDestination(i) == RegisterOffsetDestination(STACK_POINTER_REG, i)

\* "for i, arg in enumerate(self.args): lines.append(arg.compile_into(...))" (624-625),
\* from argument i on
RECURSIVE CompileArgs(_, _, _, _)
CompileArgs(args, i, scs, regs) ==
    IF i >= Len(args) THEN Out(<<>>, regs, NoErr)
    ELSE LET h == compile_into(args[i + 1], ArgDestination(i), scs, regs) IN
         IF h.err # NoErr THEN Out(<<>>, h.regs, h.err)
         ELSE LET t == CompileArgs(args, i + 1, scs, h.regs)
              IN Out(h.lines \o t.lines, t.regs, t.err)

\* mutant: the old base is stored before the stack-overflow check
CallPrologue_Mut(n, old_base) ==
    << "mov " \o repr_register(old_base) \o ", " \o repr_register(BASE_POINTER_REG),
       "mov " \o repr_register(BASE_POINTER_REG) \o ", " \o repr_register(STACK_POINTER_REG),
       "adi " \o repr_register(STACK_POINTER_REG) \o ", " \o repr_immediate(-(n + 1)),
       "mst " \o repr_register(STACK_POINTER_REG) \o ", " \o repr_offset(n)
              \o ", " \o repr_register(old_base),
       "cmp " \o repr_register(STACK_POINTER_REG) \o ", " \o repr_immediate(STACK_END),
       "jmp less " \o repr_batc_label("stack_overflow") >>

\* the lines appended before the arguments (618-623)
CallPrologue(n, old_base) ==
    << "mov " \o repr_register(old_base) \o ", " \o repr_register(BASE_POINTER_REG),
       "mov " \o repr_register(BASE_POINTER_REG) \o ", " \o repr_register(STACK_POINTER_REG),
       "adi " \o repr_register(STACK_POINTER_REG) \o ", " \o repr_immediate(-(n + 1)),
       "cmp " \o repr_register(STACK_POINTER_REG) \o ", " \o repr_immediate(STACK_END),
       "jmp less " \o repr_batc_label("stack_overflow"),
       "mst " \o repr_register(STACK_POINTER_REG) \o ", " \o repr_offset(n)
              \o ", " \o repr_register(old_base) >>

\* the lines appended after the arguments (626-628)
CallEpilogue(name, n) ==
    << "cal " \o repr_user_label(name),
       "mld " \o repr_register(BASE_POINTER_REG) \o ", " \o repr_register(STACK_POINTER_REG)
              \o ", " \o repr_offset(n),
       "adi " \o repr_register(STACK_POINTER_REG) \o ", " \o repr_immediate(n + 1) >>

\* the call of a user function (615-632)
UserCall_compile(node, scs, regs) ==
    LET n == Len(node.args)
        a == alloc_register(scs, node.scope, regs)
    IN IF a.err # NoErr THEN Out(<<>>, regs, a.err)
       ELSE With(a.reg,
              IF ~OffsetOk(n) THEN Out(<<>>, a.regs, "Offset out of range")
              ELSE LET args == CompileArgs(node.args, 0, scs, a.regs) IN
                   IF args.err # NoErr THEN Out(<<>>, args.regs, args.err)
                   ELSE Out(CallPrologue(n, a.reg) \o args.lines \o CallEpilogue(node.name, n),
                            args.regs, NoErr))

\* the operands of the port instruction (595-596, 608-609): the register is loaded
\* from args[0], the immediate is args[1].value
PortLines(mnemonic, node, reg, loaded) ==
    loaded \o << mnemonic \o " " \o repr_register(reg) \o ", "
                          \o repr_immediate(node.args[2].value) >>

\* the write_port and read_port branches (588-613)
PortCall_compile(mnemonic, node, scs, regs) ==
    IF Len(node.args) < 1 THEN Out(<<>>, regs, "IndexError")
    ELSE IF ~IsInstance(node.args[1], "IntLiteral")
    THEN Out(<<>>, regs, "Port argument must be a literal")
    ELSE LET a == alloc_register(scs, node.scope, regs) IN
    IF a.err # NoErr THEN Out(<<>>, regs, a.err)
    ELSE With(a.reg,
           LET l == compile_into(node.args[1], RegisterDestination(a.reg), scs, a.regs) IN
           IF l.err # NoErr THEN Out(<<>>, l.regs, l.err)
           ELSE IF Len(node.args) < 2 THEN Out(<<>>, l.regs, "IndexError")
           ELSE IF "value" \notin DOMAIN node.args[2] THEN Out(<<>>, l.regs, "AttributeError")
           ELSE Out(PortLines(mnemonic, node, a.reg, l.lines), l.regs, NoErr))

\* Call.compile (587-632)
Call_compile(node, scs, regs) ==
    IF node.name = "write_port" THEN PortCall_compile("pst", node, scs, regs)
    ELSE IF node.name = "read_port" THEN PortCall_compile("pld", node, scs, regs)
    ELSE UserCall_compile(node, scs, regs)

\* Var.compile (383-387)
Var_compile(node, scs, regs) ==
    IF node.value = None THEN Out(<<"">>, regs, NoErr)
    ELSE LET addr == get_var_address(scs, node.scope, node.name) IN
         IF addr.err # NoErr THEN Out(<<>>, regs, addr.err)
         ELSE compile_into(node.value[1], addr.val[1], scs, regs)

\* Node.compile (172-173), which If inherits: class If (325-347) defines no compile
If_compile(node, scs, regs) == Out(<<>>, regs, "NotImplementedError")

RECURSIVE Compile(_, _, _), CompileEach(_, _, _)
\* "\n".join(x.compile() for x in xs) (318)
CompileEach(nodes, scs, regs) ==
    IF nodes = <<>> THEN Out(<<>>, regs, NoErr)
    ELSE LET h == Compile(nodes[1], scs, regs) IN
         IF h.err # NoErr THEN Out(<<>>, h.regs, h.err)
         ELSE LET t == CompileEach(Tail(nodes), scs, h.regs)
              IN Out(h.lines \o t.lines, t.regs, t.err)

Compile(node, scs, regs) ==
    CASE node.cls = "Func" ->                                        \* 255-256
            LET b == Compile(node.body, scs, regs) IN
            IF b.err # NoErr THEN b
            ELSE Out(<<repr_user_label(node.name)>> \o b.lines, b.regs, NoErr)
      [] node.cls = "Block" ->                                       \* 317-318
            IF node.statements = <<>> THEN Out(<<"">>, regs, NoErr)
            ELSE CompileEach(node.statements, scs, regs)
      [] node.cls = "Var" -> Var_compile(node, scs, regs)
      [] node.cls = "Call" -> Call_compile(node, scs, regs)
      [] node.cls = "If" -> If_compile(node, scs, regs)
      [] OTHER -> Out(<<>>, regs, "NotImplementedError")             \* 172-173

(***************************************************************************)
(* The scope harness: any sequence of calls of Scope(parent), declare_var  *)
(* and declare_func on a scope graph.  arg is the call, err the exception  *)
(* it raised.  The names offered to a scope are its next unused v<k>, v0   *)
(* (present once the scope has a variable) and two function names.         *)
(***************************************************************************)
VarName(k) == "v" \o ToString(k)
HarnessVarNames(scope) == {VarName(scope.offset), VarName(0), "write_port"}
HarnessFuncNames == {"f", VarName(0), "write_port"}
HarnessType == U8Type(None)

InitScope ==
    /\ scopes = <<RootScope>>
    /\ err = NoErr
    /\ arg = [op |-> "Scope", scope |-> NoScope, name |-> ""]
    /\ pc = "scope"
    /\ source = <<>> /\ ast = <<>> /\ asm = <<>> /\ idx = 0 /\ ret = None

ScopeNew ==
    /\ pc = "scope"
    /\ Len(scopes) < MaxScopes
    /\ \E parent \in 1..Len(scopes) :
         /\ scopes' = NewScope([scopes |-> scopes, err |-> NoErr], parent).scopes
         /\ arg' = [op |-> "Scope", scope |-> parent, name |-> ""]
    /\ err' = NoErr
    /\ UNCHANGED <<source, ast, asm, pc, idx, ret>>

CallDeclareVar(sc, name) ==
    LET r == declare_var([scopes |-> scopes, err |-> NoErr], sc, name, HarnessType)
    IN /\ scopes' = r.scopes
       /\ err' = r.err
       /\ arg' = [op |-> "declare_var", scope |-> sc, name |-> name]
       /\ UNCHANGED <<source, ast, asm, pc, idx, ret>>

CallDeclareFunc(sc, name) ==
    LET r == declare_func([scopes |-> scopes, err |-> NoErr], sc, name,
                          <<HarnessType>>, VoidType)
    IN /\ scopes' = r.scopes
       /\ err' = r.err
       /\ arg' = [op |-> "declare_func", scope |-> sc, name |-> name]
       /\ UNCHANGED <<source, ast, asm, pc, idx, ret>>

ScopeDeclareVar ==
    /\ pc = "scope"
    /\ \E sc \in 1..Len(scopes) :
         /\ scopes[sc].offset < MaxLocals
         /\ \E name \in HarnessVarNames(scopes[sc]) : CallDeclareVar(sc, name)

ScopeDeclareFunc ==
    /\ pc = "scope"
    /\ \E sc \in 1..Len(scopes) : \E name \in HarnessFuncNames : CallDeclareFunc(sc, name)

NextScope == ScopeNew \/ ScopeDeclareVar \/ ScopeDeclareFunc

SpecScope == InitScope /\ [][NextScope]_vars

(***************************************************************************)
(* The static-memory harness: the root scope alone, declared into until    *)
(* static memory is exhausted.                                             *)
(***************************************************************************)
InitStatic ==
    /\ scopes = <<RootScope>>
    /\ err = NoErr
    /\ arg = [op |-> "Scope", scope |-> NoScope, name |-> ""]
    /\ pc = "static"
    /\ source = <<>> /\ ast = <<>> /\ asm = <<>> /\ idx = 0 /\ ret = None

StaticDeclareVar ==
    /\ pc = "static"
    /\ \E name \in HarnessVarNames(scopes[1]) : CallDeclareVar(1, name)

StaticDeclareFunc ==
    /\ pc = "static"
    /\ \E name \in HarnessFuncNames : CallDeclareFunc(1, name)

NextStatic == StaticDeclareVar \/ StaticDeclareFunc

SpecStatic == InitStatic /\ [][NextStatic]_vars

(***************************************************************************)
(* Source programs: parse trees, written with one constructor per          *)
(* production of the grammar (parser.py:210-721).                          *)
(***************************************************************************)
T_void == [prod |-> "type_void"]
T_i8 == [prod |-> "type_i8"]
T_u8 == [prod |-> "type_u8"]
T_char == [prod |-> "type_char"]
T_bool == [prod |-> "type_bool"]
T_ptr(type) == [prod |-> "type_ptr", type |-> type]
S_int(value) == [prod |-> "literal_int", value |-> value]
S_char(value) == [prod |-> "literal_char", value |-> value]
S_ident(name) == [prod |-> "ident", name |-> name]
S_deref(expr) == [prod |-> "deref", expr |-> expr]
S_eqeq(left, right) == [prod |-> "eqeq", left |-> left, right |-> right]
S_call(name, args) == [prod |-> "call", name |-> name, args |-> args]
S_var_eq(name, type, expr) == [prod |-> "var_eq", name |-> name, type |-> type, expr |-> expr]
S_var(name, type) == [prod |-> "var", name |-> name, type |-> type]
S_block(statements) == [prod |-> "block", statements |-> statements]
S_if(condition, then_body) ==
    [prod |-> "if", condition |-> condition, then_body |-> then_body]
S_if_else(condition, then_body, else_body) ==
    [prod |-> "if_else", condition |-> condition, then_body |-> then_body,
     else_body |-> else_body]
S_param(name, type) == [prod |-> "param", name |-> name, type |-> type]
S_func(name, params, type, body) ==
    [prod |-> "func", name |-> name, params |-> params, type |-> type, body |-> body]

\* func m(c: u8) -> void { <statements> }
FuncM(statements) == S_func("m", <<S_param("c", T_u8)>>, T_void, S_block(statements))

\* The top-level items programs are made of.  The name x is declared by none.
TopLevelVars ==
    { S_var_eq("g", T_u8, S_int(200)),                  \* var g: u8 = 200
      S_var_eq("g", T_i8, S_int(200)),                  \* var g: i8 = 200
      S_var_eq("g", T_u8, S_int(256)),                  \* var g: u8 = 256
      S_var("g", T_u8),                                 \* var g: u8
      S_var_eq("h", T_u8, S_ident("x")) }               \* var h: u8 = x

TopLevelFuncs ==
    { FuncM(<<>>),
      FuncM(<<S_call("m", <<S_ident("g")>>)>>),                     \* m(g)
      S_func("f", <<S_param("a", T_u8), S_param("b", T_u8)>>, T_void,
             S_block(<<S_call("f", <<S_int(1), S_ident("a")>>)>>)), \* f(1, a)
      S_func("z", <<>>, T_void, S_block(<<S_call("z", <<>>)>>)),    \* z()
      S_func("k", <<S_param("c", T_char)>>, T_void,
             S_block(<<S_call("k", <<S_char("a")>>)>>)),            \* k('a')
      FuncM(<<S_call("write_port", <<S_int(5), S_int(165)>>)>>),
      FuncM(<<S_call("write_port", <<S_ident("c"), S_int(1)>>)>>),
      FuncM(<<S_ident("x")>>),                                      \* x
      FuncM(<<S_if(S_ident("x"), S_block(<<>>))>>),                 \* if x { }
      FuncM(<<S_deref(S_ident("x"))>>),                             \* *x
      FuncM(<<S_if(S_ident("c"),
                   S_block(<<S_var_eq("y", T_u8, S_int(5))>>))>>),  \* if c { var y: u8 = 5 }
      FuncM(<<S_if_else(S_eqeq(S_ident("c"), S_int(0)), S_block(<<>>),
                S_if_else(S_eqeq(S_ident("c"), S_int(1)), S_block(<<>>),
                          S_block(<<>>)))>>) }  \* if c == 0 { } else if c == 1 { } else { }

TopLevels == TopLevelVars \cup TopLevelFuncs

Programs == UNION {[1..n -> TopLevels] : n \in 0..MaxTop}

(***************************************************************************)
(* main.py: parse, Scope(), declare, check, compile.  The loops of         *)
(* Program.declare / check / compile (195-208) run one top-level item per  *)
(* step; an exception ends the run where it is.                            *)
(***************************************************************************)
Init ==
    /\ source \in Programs
    /\ pc = "parse"
    /\ ast = <<>> /\ scopes = <<>> /\ asm = <<>>
    /\ idx = 0 /\ err = NoErr /\ arg = None /\ ret = None

\* main.py:11-13
Parse ==
    /\ pc = "parse" /\ err = NoErr
    /\ LET r == parse(source) IN
       IF r.err # NoErr
       THEN /\ err' = r.err
            /\ UNCHANGED <<ast, scopes, pc, idx>>
       ELSE /\ ast' = r.val[1]
            /\ scopes' = <<RootScope>>
            /\ pc' = "declare"
            /\ idx' = 1
            /\ err' = NoErr
    /\ UNCHANGED <<source, asm, arg, ret>>

\* one iteration of Program.declare (196-198)
DeclareTopLevel ==
    /\ pc = "declare" /\ err = NoErr /\ idx <= Len(ast)
    /\ LET r == Declare(ast[idx], 1, [scopes |-> scopes, err |-> NoErr]) IN
         /\ ast' = [ast EXCEPT ![idx] = r.node]
         /\ scopes' = r.st.scopes
         /\ err' = r.st.err
         /\ idx' = IF r.st.err = NoErr THEN idx + 1 ELSE idx
    /\ UNCHANGED <<source, asm, pc, arg, ret>>

\* main.py:14-15
DeclareDone ==
    /\ pc = "declare" /\ err = NoErr /\ idx > Len(ast)
    /\ pc' = "check" /\ idx' = 1
    /\ UNCHANGED <<source, ast, scopes, asm, err, arg, ret>>

\* one iteration of Program.check (201-202)
CheckTopLevel ==
    /\ pc = "check" /\ err = NoErr /\ idx <= Len(ast)
    /\ LET e == Check(ast[idx], scopes) IN
         /\ err' = e
         /\ idx' = IF e = NoErr THEN idx + 1 ELSE idx
    /\ UNCHANGED <<source, ast, scopes, asm, pc, arg, ret>>

\* main.py:15-16
CheckDone ==
    /\ pc = "check" /\ err = NoErr /\ idx > Len(ast)
    /\ pc' = "compile" /\ idx' = 1
    /\ UNCHANGED <<source, ast, scopes, asm, err, arg, ret>>

\* the number of "with alloc_register()" blocks a compile of node can enter
RECURSIVE AllocSites(_)
AllocSites(node) ==
    CASE node.cls = "Func" -> AllocSites(node.body)
      [] node.cls = "Block" ->
            IF node.statements = <<>> THEN 0
            ELSE AllocSites(node.statements[1])
                 + AllocSites([node EXCEPT !.statements = Tail(@)])
      [] node.cls = "Var" -> 2
      [] node.cls = "Call" -> 1 + Len(node.args)
      [] OTHER -> 0

\* one top_level.compile() of Program.compile (208)
CompileTopLevel ==
    /\ pc = "compile" /\ err = NoErr /\ idx <= Len(ast)
    /\ \E picks \in [1..AllocSites(ast[idx]) -> 1..Cardinality(InitialRegs)] :
         LET r == Compile(ast[idx], scopes, [free |-> scopes[1].regs, picks |-> picks]) IN
           /\ scopes' = [scopes EXCEPT ![1].regs = r.regs.free]
           /\ err' = r.err
           /\ asm' = IF r.err = NoErr THEN Append(asm, r.lines) ELSE asm
           /\ idx' = IF r.err = NoErr THEN idx + 1 ELSE idx
    /\ UNCHANGED <<source, ast, pc, arg, ret>>

\* main.py:16-19
CompileDone ==
    /\ pc = "compile" /\ err = NoErr /\ idx > Len(ast)
    /\ pc' = "done"
    /\ UNCHANGED <<source, ast, scopes, asm, idx, err, arg, ret>>

Next ==
    \/ Parse
    \/ DeclareTopLevel
    \/ DeclareDone
    \/ CheckTopLevel
    \/ CheckDone
    \/ CompileTopLevel
    \/ CompileDone

Spec == Init /\ [][Next]_vars

(***************************************************************************)
(* Program.declare run a second time on the same AST with the same root    *)
(* scope (195-198): after the first run has ended, arg keeps the AST and   *)
(* the scope graph it left, and the loop runs again from the first item.   *)
(***************************************************************************)
\* the first ast.declare() has returned; the second call starts
RedeclareStart ==
    /\ pc = "declare" /\ err = NoErr /\ idx > Len(ast)
    /\ pc' = "redeclare" /\ idx' = 1
    /\ arg' = Some([ast |-> ast, scopes |-> scopes])
    /\ UNCHANGED <<source, ast, scopes, asm, err, ret>>

\* one iteration of Program.declare (196-198) in the second call
RedeclareTopLevel ==
    /\ pc = "redeclare" /\ err = NoErr /\ idx <= Len(ast)
    /\ LET r == Declare(ast[idx], 1, [scopes |-> scopes, err |-> NoErr]) IN
         /\ ast' = [ast EXCEPT ![idx] = r.node]
         /\ scopes' = r.st.scopes
         /\ err' = r.st.err
         /\ idx' = IF r.st.err = NoErr THEN idx + 1 ELSE idx
    /\ UNCHANGED <<source, asm, pc, arg, ret>>

\* the second ast.declare() has returned
RedeclareDone ==
    /\ pc = "redeclare" /\ err = NoErr /\ idx > Len(ast)
    /\ pc' = "redeclared"
    /\ UNCHANGED <<source, ast, scopes, asm, idx, err, arg, ret>>

NextRedeclare ==
    \/ Parse
    \/ DeclareTopLevel
    \/ RedeclareStart
    \/ RedeclareTopLevel
    \/ RedeclareDone

SpecRedeclare == Init /\ [][NextRedeclare]_vars

(***************************************************************************)
(* The cast harness: can_be_implicitly_casted_to on every pair of types,   *)
(* and Var.check on "var x: T = v".                                        *)
(***************************************************************************)
RECURSIVE PlainTypes(_)
PlainTypes(d) ==
    IF d = 0 THEN {VoidType, I8Type(None), U8Type(None), CharType, BoolType}
    ELSE PlainTypes(d - 1) \cup {PointerType(t) : t \in PlainTypes(d - 1)}

ConstValues == {-129, -128, -1, 0, 127, 128, 200, 255, 256}
ConstTypes == {I8Type(Some(v)) : v \in ConstValues} \cup {U8Type(Some(v)) : v \in ConstValues}
CastTypes == PlainTypes(MaxDepth) \cup ConstTypes

InitType ==
    /\ arg \in [self : CastTypes, other : CastTypes]
    /\ ret = None
    /\ pc = "cast"
    /\ err = NoErr
    /\ source = <<>> /\ ast = <<>> /\ scopes = <<RootScope>> /\ asm = <<>> /\ idx = 0

\* self.can_be_implicitly_casted_to(other)
TypeCast ==
    /\ pc = "cast" /\ ret = None
    /\ ret' = Some(can_be_implicitly_casted_to(arg.self, arg.other))
    /\ UNCHANGED <<source, ast, scopes, asm, pc, idx, err, arg>>

\* declare and check "var x: other = v", where self is the type of the literal v
TypeVarCheck ==
    /\ pc = "cast" /\ ret = None
    /\ arg.self \in ConstTypes
    /\ arg.self = IntLiteral_get_type(IntLiteral(arg.self.value[1]))
    /\ LET d == Declare(Var("x", arg.other, Some(IntLiteral(arg.self.value[1]))), 1,
                        [scopes |-> scopes, err |-> NoErr])
       IN /\ ast' = <<d.node>>
          /\ scopes' = d.st.scopes
          /\ err' = IF d.st.err # NoErr THEN d.st.err ELSE Check(d.node, d.st.scopes)
    /\ pc' = "varcheck"
    /\ UNCHANGED <<source, asm, idx, arg, ret>>

NextType == TypeCast \/ TypeVarCheck

SpecType == InitType /\ [][NextType]_vars

(***************************************************************************)
(* Claims.                                                                 *)
(***************************************************************************)
Registers == 0..7
Addrs(scope) == {scope.addrs[n].address : n \in DOMAIN scope.addrs}

\* C3: at the root scope the k-th successfully declared variable (k from 0,
\* functions not counted) gets static address 191-k; every static address lies in
\* (128, 191]; no two root variables share an address; and a declaration of a new
\* name that would need an address <= 128 fails with "Out of static memory".
C3_StaticAddresses ==
    /\ [](/\ \A n \in DOMAIN scopes[1].addrs :
                scopes[1].addrs[n].address > 128 /\ scopes[1].addrs[n].address <= 191
          /\ Cardinality(Addrs(scopes[1])) = Cardinality(DOMAIN scopes[1].addrs))
    /\ [][ arg'.op = "declare_var" =>
             LET k == Cardinality(DOMAIN scopes[1].addrs) IN
             /\ err' = NoErr =>
                   /\ DOMAIN scopes'[1].addrs = DOMAIN scopes[1].addrs \cup {arg'.name}
                   /\ arg'.name \notin DOMAIN scopes[1].addrs
                   /\ scopes'[1].addrs[arg'.name] = MemoryDestination(191 - k)
             /\ (arg'.name \notin DOMAIN scopes[1].vars /\ 191 - k <= 128)
                   => err' = "Out of static memory" ]_vars

\* C3 witness: 63 variables and a function are declared, and one more declaration
\* has just failed for lack of static memory.
C3_Witness ==
    /\ pc = "static"
    /\ Cardinality(DOMAIN scopes[1].addrs) = 63
    /\ "f" \in DOMAIN scopes[1].vars
    /\ arg.op = "declare_var" /\ err = "Out of static memory"

\* the ancestors of scope sc
RECURSIVE Ancestors(_, _)
Ancestors(scs, sc) ==
    IF scs[sc].parent = NoScope THEN {}
    ELSE {scs[sc].parent} \cup Ancestors(scs, scs[sc].parent)

\* C5: declaring a name already present in the same scope fails (a variable, a
\* parameter, or a function at the root, where functions are declared: with
\* "Redefinition of symbol") and leaves the scope graph unchanged; every scope
\* holds one storage slot per counted declaration; declaring a variable whose name
\* is present only in an ancestor scope succeeds.
C5_Redefinition ==
    /\ [](\A sc \in 1..Len(scopes) :
             /\ scopes[sc].offset = Cardinality(DOMAIN scopes[sc].addrs)
             /\ DOMAIN scopes[sc].addrs \subseteq DOMAIN scopes[sc].vars)
    /\ [][ arg'.op \in {"declare_var", "declare_func"} =>
             LET sc == arg'.scope IN
             /\ arg'.name \in DOMAIN scopes[sc].vars =>
                   /\ err' # NoErr
                   /\ scopes' = scopes
                   /\ (arg'.op = "declare_var" \/ sc = 1) => err' = "Redefinition of symbol"
             /\ ( /\ arg'.op = "declare_var"
                  /\ arg'.name \notin DOMAIN scopes[sc].vars
                  /\ \E a \in Ancestors(scopes, sc) : arg'.name \in DOMAIN scopes[a].vars )
                   => /\ err' = NoErr
                      /\ arg'.name \in DOMAIN scopes'[sc].vars ]_vars

\* C5 witness: v0 is in the root and in a child scope, and its second declaration
\* in the child has just failed.
C5_Witness ==
    /\ pc = "scope"
    /\ arg.op = "declare_var" /\ arg.scope # 1 /\ arg.name = "v0"
    /\ err = "Redefinition of symbol"
    /\ "v0" \in DOMAIN scopes[1].vars
    /\ "v0" \in DOMAIN scopes[arg.scope].vars

\* the claim's rule: equal types, or a known constant in the target's range
RECURSIVE SameType(_, _)
SameType(S, T) ==
    /\ S.cls = T.cls
    /\ S.cls = "PointerType" => SameType(S.type, T.type)

CastRule(S, T) ==
    \/ SameType(S, T)
    \/ /\ S.cls \in {"I8Type", "U8Type"} /\ S.value # None
       /\ \/ T.cls = "U8Type" /\ S.value[1] \in 0..255
          \/ T.cls = "I8Type" /\ S.value[1] \in (-128)..127

\* C4: S.can_be_implicitly_casted_to(T) is true iff S and T are equal or S carries
\* a known constant v and T is u8 with 0 <= v <= 255 or i8 with -128 <= v <= 127;
\* and "var x: T = v" for a literal v of 8 bits passes the check pass iff that rule
\* allows it, so var x: i8 = 200 is rejected and var x: u8 = 200 accepted.
C4_ImplicitCast ==
    /\ (pc = "cast" /\ ret # None) => ret[1] = CastRule(arg.self, arg.other)
    /\ (pc = "varcheck" /\ arg.self.value[1] \in 0..255) =>
          /\ err = NoErr <=> CastRule(arg.self, arg.other)
          /\ err # NoErr => err = "Cannot assign"
          /\ (arg.self.value[1] = 200 /\ arg.other = I8Type(None)) => err = "Cannot assign"
          /\ (arg.self.value[1] = 200 /\ arg.other = U8Type(None)) => err = NoErr

\* C4 witness: var x: i8 = 200 has been checked and rejected.
C4_Witness ==
    /\ pc = "varcheck"
    /\ arg.self = U8Type(Some(200)) /\ arg.other = I8Type(None)
    /\ err = "Cannot assign"

\* a call of a user function whose arguments are integer literals and identifiers
IsUserCall(node) ==
    /\ node.cls = "Call"
    /\ node.name \notin {"write_port", "read_port"}
    /\ \A k \in 1..Len(node.args) : node.args[k].cls \in {"IntLiteral", "Ident"}

\* the number of lines the lowering of an argument into a frame slot takes: a
\* literal is loaded and stored; a frame variable is loaded and stored; a static
\* variable has its address loaded first
SegLen(a) ==
    IF a.cls = "IntLiteral" THEN 2
    ELSE IF get_var_address(scopes, a.scope, a.name).val[1].cls = "MemoryDestination" THEN 3
    ELSE 2

RECURSIVE SegEnd(_, _)
\* the number of lines the first k arguments take
SegEnd(args, k) == IF k = 0 THEN 0 ELSE SegEnd(args, k - 1) + SegLen(args[k])

\* the lines of text from line start + 1 on are the call sequence of call
CallSequenceAt(text, start, call) ==
    LET n == Len(call.args)
        L(j) == text[start + j]
        total == 6 + SegEnd(call.args, n) + 3
    IN /\ Len(text) = start + total
       /\ \E R \in Registers :
            /\ L(1) = "mov r" \o ToString(R) \o ", r7"
            /\ L(6) = "mst r6, #" \o ToString(n) \o ", r" \o ToString(R)
       /\ L(2) = "mov r7, r6"
       /\ L(3) = "adi r6, #" \o ToString(-(n + 1))
       /\ L(4) = "cmp r6, #192"
       /\ L(5) = "jmp less .batc_stack_overflow"
       /\ \A k \in 1..n :
            \E X \in Registers :
              /\ L(6 + SegEnd(call.args, k)) =
                    "mst r6, #" \o ToString(k - 1) \o ", r" \o ToString(X)
              /\ call.args[k].cls = "IntLiteral" =>
                    L(6 + SegEnd(call.args, k - 1) + 1) =
                       "ldi r" \o ToString(X) \o ", #" \o ToString(call.args[k].value)
       /\ L(total - 2) = "cal .user_" \o call.name
       /\ L(total - 1) = "mld r7, r6, #" \o ToString(n)
       /\ L(total) = "adi r6, #" \o ToString(n + 1)

\* the statements of a top-level function whose last statement is such a call
EndsInUserCall(node) ==
    /\ node.cls = "Func"
    /\ node.body.statements # <<>>
    /\ IsUserCall(node.body.statements[Len(node.body.statements)])

\* C1: the text compiled for a call of a user function with N literal or identifier
\* arguments is exactly: mov old_base, r7; mov r7, r6; adi r6, #-(N+1); cmp r6, #192;
\* jmp less .batc_stack_overflow; mst r6, #N, old_base; the lowering of argument i
\* into (r6, i) for i = 0..N-1 in order; cal .user_NAME; mld r7, r6, #N;
\* adi r6, #N+1.
C1_CallSequence ==
    \A i \in 1..Len(asm) :
        EndsInUserCall(ast[i]) =>
            LET stmts == ast[i].body.statements
                call == stmts[Len(stmts)]
                total == 9 + SegEnd(call.args, Len(call.args))
            IN /\ Len(asm[i]) > total
               /\ CallSequenceAt(asm[i], Len(asm[i]) - total, call)

\* C1 witness: f(1, a), a call with a literal and an identifier, has been compiled.
C1_Witness ==
    /\ pc = "done"
    /\ \E i \in 1..Len(asm) :
          /\ EndsInUserCall(ast[i])
          /\ ast[i].name = "f"
          /\ Len(ast[i].body.statements[1].args) = 2

\* C2: whenever the compile of a top-level item has ended, with or without an
\* exception, the root scope's free registers are {2, 3, 4, 5} again.
C2_RegistersReleased ==
    scopes # <<>> => scopes[1].regs = {2, 3, 4, 5}

\* C2 witness: k('a') has raised NotImplementedError inside the region that holds
\* the argument register, and the pool is whole.
C2_Witness ==
    /\ pc = "compile" /\ err = "NotImplementedError"
    /\ ast[idx].cls = "Func" /\ ast[idx].name = "k"
    /\ scopes[1].regs = {2, 3, 4, 5}

(***************************************************************************)
(* Identifier resolution after the check pass.                             *)
(***************************************************************************)
RECURSIVE IdentsResolve(_, _), IdentsResolveEach(_, _)
\* every Ident below each of nodes resolves in the scope chain of its node
IdentsResolveEach(nodes, scs) ==
    \A i \in 1..Len(nodes) : IdentsResolve(nodes[i], scs)

\* every Ident below node resolves in the scope chain of its node
IdentsResolve(node, scs) ==
    CASE node.cls = "Ident" -> get_var_type(scs, node.scope, node.name).err = NoErr
      [] node.cls = "Func" -> IdentsResolve(node.body, scs)
      [] node.cls = "Block" -> IdentsResolveEach(node.statements, scs)
      [] node.cls = "If" ->
            /\ IdentsResolve(node.condition, scs)
            /\ IdentsResolve(node.then_body, scs)
            /\ node.else_body # None => IdentsResolve(node.else_body[1], scs)
      [] node.cls = "Var" -> node.value # None => IdentsResolve(node.value[1], scs)
      [] node.cls = "Deref" -> IdentsResolve(node.expr, scs)
      [] node.cls = "EqEq" -> IdentsResolve(node.left, scs) /\ IdentsResolve(node.right, scs)
      [] node.cls = "Call" -> IdentsResolveEach(node.args, scs)
      [] OTHER -> TRUE

\* C6: a program that has passed the check pass has every identifier expression
\* resolving in the scope chain of its node, whatever the identifier's position.
C6_UndeclaredIdentRejected ==
    pc \in {"compile", "done"} => IdentsResolveEach(ast, scopes)

\* C7: a program that is the one declaration "var NAME: TYPE" is accepted by the
\* parser, no pass raises on it, the declare pass gives NAME one storage slot in
\* the root scope, and the emit pass writes no instruction for it.
C7_VarWithoutInitializer ==
    (Len(source) = 1 /\ source[1].prod = "var") =>
        /\ err = NoErr
        /\ pc \in {"check", "compile", "done"} =>
              /\ source[1].name \in DOMAIN scopes[1].addrs
              /\ scopes[1].offset = 1
        /\ pc = "done" => \A k \in 1..Len(asm[1]) : asm[1][k] = ""

\* a function whose body is one if statement
IsIfFunc(node) ==
    /\ node.cls = "Func"
    /\ Len(node.body.statements) = 1
    /\ node.body.statements[1].cls = "If"

\* C8: the emit pass lowers an if statement: it does not raise on it, and the text
\* it writes for it compares the condition register with #0.
C8_IfLowering ==
    \A i \in 1..Len(ast) :
        IsIfFunc(ast[i]) =>
            /\ (pc = "compile" /\ idx = i) => err = NoErr
            /\ (pc \in {"compile", "done"} /\ i <= Len(asm)) =>
                  \E R \in Registers : \E k \in 1..Len(asm[i]) :
                      asm[i][k] = "cmp " \o repr_register(R) \o ", " \o repr_immediate(0)

\* a function whose body is one call write_port(p, v) of two integer literals
IsWritePortFunc(node) ==
    /\ node.cls = "Func"
    /\ Len(node.body.statements) = 1
    /\ node.body.statements[1].cls = "Call"
    /\ node.body.statements[1].name = "write_port"
    /\ Len(node.body.statements[1].args) = 2
    /\ \A j \in 1..2 : node.body.statements[1].args[j].cls = "IntLiteral"

\* C9: for write_port(p, v) of two integer literals the emit pass writes
\* "ldi R, #v" followed by "pst R, #p" for one register R.
C9_WritePort ==
    \A i \in 1..Len(asm) :
        IsWritePortFunc(ast[i]) =>
            LET call == ast[i].body.statements[1]
                p == call.args[1].value
                v == call.args[2].value
            IN \E R \in Registers : \E k \in 1..(Len(asm[i]) - 1) :
                  /\ asm[i][k] = "ldi " \o repr_register(R) \o ", " \o repr_immediate(v)
                  /\ asm[i][k + 1] = "pst " \o repr_register(R) \o ", " \o repr_immediate(p)

\* item i of the source is a variable whose initializer is an integer literal that
\* does not fit in 8 bits
IsWideLiteralVar(i) ==
    /\ source[i].prod = "var_eq"
    /\ source[i].expr.prod = "literal_int"
    /\ source[i].expr.value % (U8Max + 1) # source[i].expr.value

\* C10: the check pass does not abort on an integer literal that does not fit in
\* 8 bits, and afterwards the literal holds its value mod 256.
C10_LiteralMasked ==
    \A i \in 1..Len(source) :
        IsWideLiteralVar(i) =>
            /\ (pc = "check" /\ idx = i) => err = NoErr
            /\ pc \in {"compile", "done"} =>
                  ast[i].value[1].value = source[i].expr.value % (U8Max + 1)

\* C11: a second run of Program.declare on the same AST and root scope never
\* leaves a scope graph that differs from the one the first run left: it is either
\* rejected with the graph (names, types, storage locations, offsets of every
\* scope, and the scope of every node) as it was, or it ends with the same graph.
C11_RedeclareSameGraph ==
    pc \in {"redeclare", "redeclared"} =>
        /\ scopes = arg[1].scopes
        /\ ast = arg[1].ast
        /\ (pc = "redeclare" /\ idx <= Len(ast)) => (err = NoErr => idx = 1)

\* C11 witness: the second run over a program with a function, whose first run
\* made a child scope, has been rejected as a redefinition.
C11_Witness ==
    /\ pc = "redeclare" /\ err = "Redefinition of symbol"
    /\ \E i \in 1..Len(ast) : ast[i].cls = "Func"
    /\ Len(scopes) > 1
    /\ scopes = arg[1].scopes

(***************************************************************************)
(* The addresses of a call frame, read from the emitted text.  Of the      *)
(* lines before cal only "mov" and "adi" on r6 and r7 change r6 or r7, and *)
(* "mst r6, #k, rX" stores at r6 + k; registers hold 8 bits.               *)
(***************************************************************************)
FrameRegs == {STACK_POINTER_REG, BASE_POINTER_REG}
AdiRange == (OffsetMin - 1)..(OffsetMax + 1)
Wrap(x) == x % (ByteMask + 1)

\* the texts of the instructions that are interpreted
MovText == [a \in FrameRegs, b \in FrameRegs |->
               "mov " \o repr_register(a) \o ", " \o repr_register(b)]
AdiText == [a \in FrameRegs, v \in AdiRange |->
               "adi " \o repr_register(a) \o ", " \o repr_immediate(v)]
MstText == [k \in 0..OffsetMax, x \in InitialRegs |->
               load_from_register(RegisterOffsetDestination(STACK_POINTER_REG, k), x)]

\* the registers r6, r7 and the addresses stored to, after one more line
ExecLine(line, m) ==
    IF \E a \in FrameRegs, b \in FrameRegs : line = MovText[a, b]
    THEN LET ab == CHOOSE ab \in FrameRegs \X FrameRegs : line = MovText[ab[1], ab[2]]
         IN [m EXCEPT !.r[ab[1]] = m.r[ab[2]]]
    ELSE IF \E a \in FrameRegs, v \in AdiRange : line = AdiText[a, v]
    THEN LET av == CHOOSE av \in FrameRegs \X AdiRange : line = AdiText[av[1], av[2]]
         IN [m EXCEPT !.r[av[1]] = Wrap(@ + av[2])]
    ELSE IF \E k \in 0..OffsetMax, x \in InitialRegs : line = MstText[k, x]
    THEN LET kx == CHOOSE kx \in (0..OffsetMax) \X InitialRegs : line = MstText[kx[1], kx[2]]
         IN [m EXCEPT !.stores = Append(@, [slot |-> kx[1],
                                            address |-> Wrap(m.r[STACK_POINTER_REG] + kx[1])])]
    ELSE m

RECURSIVE ExecLines(_, _, _, _)
\* lines from..to of text, run from m
ExecLines(text, from, to, m) ==
    IF from > to THEN m
    ELSE ExecLines(text, from + 1, to, ExecLine(text[from], m))

\* the values r6 and r7 can hold when a call sequence starts
StackPointers == {0, 1, STACK_END, ByteMask}

\* the top-level function called by call
Callee(call) == CHOOSE f \in {ast[j] : j \in 1..Len(ast)} : f.cls = "Func" /\ f.name = call.name

\* C12: for every compiled call of a user function with N >= 1 arguments, the
\* address the caller's text stores argument i at (r6 + i after the frame is
\* reserved) is the address the callee reads parameter i from (r7, as the caller
\* set it before cal, plus the frame offset the declare pass gave parameter i),
\* in 8-bit arithmetic.
C12_FrameAddresses ==
    \A i \in 1..Len(asm) :
        (EndsInUserCall(ast[i]) /\ ast[i].body.statements[Len(ast[i].body.statements)].args # <<>>) =>
            LET stmts == ast[i].body.statements
                call == stmts[Len(stmts)]
                n == Len(call.args)
                total == 9 + SegEnd(call.args, n)
                first == Len(asm[i]) - total + 1
                callee == Callee(call)
            IN \A sp \in StackPointers, bp \in StackPointers :
                 LET m == ExecLines(asm[i], first, Len(asm[i]) - 3,
                                    [r |-> [a \in FrameRegs |->
                                              IF a = STACK_POINTER_REG THEN sp ELSE bp],
                                     stores |-> <<>>])
                 IN \A k \in 1..n :
                      LET param == callee.params[k]
                          slot == get_var_address(scopes, param.scope, param.name).val[1]
                      IN /\ slot.register = BASE_POINTER_REG
                         /\ \E j \in 1..Len(m.stores) :
                               /\ m.stores[j].slot = k - 1
                               /\ m.stores[j].address
                                     = Wrap(m.r[BASE_POINTER_REG] + slot.offset)

\* the variables of scope sc, as pairs of scope and name
VarsOf(scs, sc) == {<<sc, n>> : n \in DOMAIN scs[sc].addrs}

\* C13: within a function, two distinct variables of which one is declared in the
\* scope of the other or in one of its ancestors below the root have different
\* frame slots (r7, k).
C13_DistinctFrameSlots ==
    \A s \in 2..Len(scopes), t \in 2..Len(scopes) :
        (t = s \/ s \in Ancestors(scopes, t)) =>
            \A x \in VarsOf(scopes, s), y \in VarsOf(scopes, t) :
                x # y => scopes[s].addrs[x[2]] # scopes[t].addrs[y[2]]

====
